---------------------------- MODULE Spec2Model ----------------------------
(***************************************************************************)
(* A model of generateSampleImages.py: the colour and aspect-ratio         *)
(* parsers, the font-size binary search, the centring arithmetic of        *)
(* generate_image and the batch loop of main.                              *)
(*                                                                         *)
(* Python strings are sequences of one-character strings, so that          *)
(* startswith, lstrip, split, strip, lower and int() are computed          *)
(* character by character as CPython computes them.                        *)
(***************************************************************************)
EXTENDS Integers, Sequences, FiniteSets, TLC

VARIABLES
    \* parse_color
    color_str,      \* the argument of parse_color
    color_out,      \* what the call returned or raised; Raised("pending") before it
    \* get_font_size_to_fill
    font_in,        \* [textbbox, max_width, max_height, env]: the arguments and the host
    min_size, max_size, best_size,
    font_pc,        \* "loop" | "returned"
    font_out,       \* the font object returned; NoFont before it
    \* generate_image, centring part
    canvas,         \* [width, height, bbox] of the image being drawn
    draw_at,        \* the (x, y) handed to draw.text, once it is computed
    ink,            \* the glyph box on the canvas, once the text is drawn
    \* main
    args,           \* the argparse namespace
    pc,             \* the position of main
    h_ratio, v_ratio, bg_color, fg_color,
    landscape, portrait,    \* <<width, height>> pairs
    dir_created,    \* os.makedirs has returned
    rng,            \* how the random generator was seeded
    i,              \* the loop index
    image,          \* the locals of the current iteration
    written,        \* the number of generate_image calls that returned
    files,          \* images completely written: filename -> <<width, height>>
    partial,        \* names of files a failed save left behind
    stdout,         \* the records printed so far
    exit_status     \* how the process ended, once it has

colorVars == <<color_str, color_out>>
fontVars == <<font_in, min_size, max_size, best_size, font_pc, font_out>>
centerVars == <<canvas, draw_at, ink>>
mainVars == <<args, pc, h_ratio, v_ratio, bg_color, fg_color, landscape, portrait,
              dir_created, rng, i, image, written, files, partial, stdout, exit_status>>
vars == <<colorVars, fontVars, centerVars, mainVars>>

-----------------------------------------------------------------------------
(* Strings *)

DecChars == <<"0", "1", "2", "3", "4", "5", "6", "7", "8", "9">>
LowerChars == <<"a", "b", "c", "d", "e", "f", "g", "h", "i", "j", "k", "l", "m",
                "n", "o", "p", "q", "r", "s", "t", "u", "v", "w", "x", "y", "z">>
UpperChars == <<"A", "B", "C", "D", "E", "F", "G", "H", "I", "J", "K", "L", "M",
                "N", "O", "P", "Q", "R", "S", "T", "U", "V", "W", "X", "Y", "Z">>

Range(s) == {s[k] : k \in 1..Len(s)}

IndexOf(s, c) == CHOOSE k \in 1..Len(s) : s[k] = c

\* str.lower() on one character
LowerChar(c) == IF c \in Range(UpperChars) THEN LowerChars[IndexOf(UpperChars, c)] ELSE c

\* str.lower()
Lower(s) == [k \in 1..Len(s) |-> LowerChar(s[k])]

\* str.replace(a, b) for one-character a and b
Replace(s, a, b) == [k \in 1..Len(s) |-> IF s[k] = a THEN b ELSE s[k]]

\* s * 2
Twice(s) == s \o s

\* s[m:n] of Python, for 0 <= m <= n
Slice(s, m, n) == SubSeq(s, m + 1, IF n > Len(s) THEN Len(s) ELSE n)

\* str.startswith(c) for a one-character c
StartsWith(s, c) == Len(s) > 0 /\ s[1] = c

RECURSIVE LStrip(_, _)
\* str.lstrip(chars): every leading character that is in chars goes
LStrip(s, chars) ==
    IF Len(s) > 0 /\ s[1] \in chars THEN LStrip(Tail(s), chars) ELSE s

RECURSIVE RStrip(_, _)
RStrip(s, chars) ==
    IF Len(s) > 0 /\ s[Len(s)] \in chars THEN RStrip(SubSeq(s, 1, Len(s) - 1), chars) ELSE s

\* the whitespace of the model's alphabet
Whitespace == {" "}

\* str.strip()
Strip(s) == RStrip(LStrip(s, Whitespace), Whitespace)

RECURSIVE Split(_, _)
\* str.split(sep) for a one-character sep: always at least one part
Split(s, sep) ==
    IF \E k \in 1..Len(s) : s[k] = sep
    THEN LET k == CHOOSE k \in 1..Len(s) : s[k] = sep /\ \A j \in 1..(k - 1) : s[j] # sep
         IN  <<SubSeq(s, 1, k - 1)>> \o Split(SubSeq(s, k + 1, Len(s)), sep)
    ELSE <<s>>

\* the value of one digit in a base, -1 when it is no digit of that base
DigitValue(c, base) ==
    LET v == IF c \in Range(DecChars) THEN IndexOf(DecChars, c) - 1
             ELSE IF c \in Range(LowerChars) THEN IndexOf(LowerChars, c) + 9
             ELSE IF c \in Range(UpperChars) THEN IndexOf(UpperChars, c) + 9
             ELSE -1
    IN  IF v < base THEN v ELSE -1

RECURSIVE DigitsValue(_, _)
\* the number a non-empty run of digits of the base spells
DigitsValue(ds, base) ==
    IF Len(ds) = 0 THEN 0
    ELSE DigitsValue(SubSeq(ds, 1, Len(ds) - 1), base) * base + DigitValue(ds[Len(ds)], base)

\* int(s, base): surrounding whitespace is stripped, one sign is allowed, and what
\* is left must be one or more digits of the base; anything else is a ValueError.
\* (The alphabets of the model hold no "_" and no "x", so the digit-group
\* separator and the 0x prefix int() also accepts never occur.)
PyInt(s, base) ==
    LET t == Strip(s)
        signed == Len(t) > 0 /\ t[1] \in {"+", "-"}
        ds == IF signed THEN Tail(t) ELSE t
    IN  IF Len(ds) > 0 /\ \A k \in 1..Len(ds) : DigitValue(ds[k], base) >= 0
        THEN [ok |-> TRUE,
              val |-> IF signed /\ t[1] = "-" THEN 0 - DigitsValue(ds, base)
                      ELSE DigitsValue(ds, base)]
        ELSE [ok |-> FALSE, val |-> 0]

-----------------------------------------------------------------------------
(* parse_color *)

Returned(v) == [raised |-> "none", value |-> v]
Raised(e) == [raised |-> e, value |-> <<>>]

\* tuple(int(p, base) for p in parts): the first part int() rejects raises
IntTuple(parts, base) ==
    IF \A k \in 1..Len(parts) : PyInt(parts[k], base).ok
    THEN Returned([k \in 1..Len(parts) |-> PyInt(parts[k], base).val])
    ELSE Raised("ValueError")

named_colors ==
    {<<<<"d", "a", "r", "k", "g", "r", "a", "y">>, <<64, 64, 64>>>>,
     <<<<"d", "a", "r", "k", "_", "g", "r", "a", "y">>, <<64, 64, 64>>>>,
     <<<<"l", "i", "g", "h", "t", "g", "r", "a", "y">>, <<192, 192, 192>>>>,
     <<<<"l", "i", "g", "h", "t", "_", "g", "r", "a", "y">>, <<192, 192, 192>>>>,
     <<<<"w", "h", "i", "t", "e">>, <<255, 255, 255>>>>,
     <<<<"b", "l", "a", "c", "k">>, <<0, 0, 0>>>>,
     <<<<"r", "e", "d">>, <<255, 0, 0>>>>,
     <<<<"g", "r", "e", "e", "n">>, <<0, 255, 0>>>>,
     <<<<"b", "l", "u", "e">>, <<0, 0, 255>>>>}

\* the named-colour lookup that ends parse_color
NamedColor(color) ==
    LET lower_color == Replace(Lower(color), " ", "_")
    IN  IF \E e \in named_colors : e[1] = lower_color
        THEN Returned((CHOOSE e \in named_colors : e[1] = lower_color)[2])
        ELSE Raised("ValueError")

\* the comma branch and what follows it
CommaOrNamed(color) ==
    IF "," \in Range(color) /\ Len(Split(color, ",")) = 3
    THEN IntTuple([k \in 1..3 |-> Strip(Split(color, ",")[k])], 10)
    ELSE NamedColor(color)

\* HexBody with a fault: the shorthand digits are not duplicated
HexBodyNoDup(color) ==
    LET hex_color == LStrip(color, {"#"})
    IN  IF Len(hex_color) = 6
        THEN IntTuple([k \in 1..3 |-> Slice(hex_color, 2 * (k - 1), 2 * k)], 16)
        ELSE IF Len(hex_color) = 3
        THEN IntTuple([k \in 1..3 |-> <<hex_color[k]>>], 16)
        ELSE CommaOrNamed(color)

\* the body of "if color_str.startswith('#')"
HexBody(color) ==
    LET hex_color == LStrip(color, {"#"})
    IN  IF Len(hex_color) = 6
        THEN IntTuple([k \in 1..3 |-> Slice(hex_color, 2 * (k - 1), 2 * k)], 16)
        ELSE IF Len(hex_color) = 3
        THEN IntTuple([k \in 1..3 |-> Twice(<<hex_color[k]>>)], 16)
        ELSE CommaOrNamed(color)

parse_color(color) ==
    IF StartsWith(color, "#") THEN HexBody(color) ELSE CommaOrNamed(color)

-----------------------------------------------------------------------------
(* The inputs of parse_color *)

\* the longest run of characters after the leading '#'s
MaxBody == 6
\* the most leading '#'s
MaxHashes == 2

\* three hexadecimal digits in both cases, and a letter that is none
BodyChars == {"0", "a", "F", "g"}

Hashes(n) == [k \in 1..n |-> "#"]

ColorSamples ==
    {<<"n", "o", "t", "a", "c", "o", "l", "o", "r">>,
     <<"1", ",", "2">>,
     <<"#", "1", "2">>,
     <<"#", "#", "f", "f", "f">>,
     <<"#", "g", "g", "g", "g", "g", "g">>,
     <<"a", ",", "b", ",", "c">>,
     <<"1", ",", "2", ",", "3">>,
     <<" ", "1", " ", ",", " ", "2", " ", ",", "3", " ">>,
     <<"D", "a", "r", "k", " ", "G", "r", "a", "y">>,
     <<"R", "E", "D">>,
     <<"l", "i", "g", "h", "t", "_", "g", "r", "a", "y">>,
     <<"w", "h", "i", "t", "e">>,
     <<"#", "+", "1", "+", "2", "+", "3">>,
     <<"3", "0", "0", ",", "-", "1", ",", "2">>,
     <<"#", "1", ",", "2", ",", "3">>,
     <<"1", ",", "2", ",", "3", ",", "4">>,
     <<>>}

ColorInputs ==
    {Hashes(n) \o b : n \in 0..MaxHashes,
                      b \in UNION {[1..len -> BodyChars] : len \in 0..MaxBody}}
    \cup ColorSamples

-----------------------------------------------------------------------------
(* Idle values of the parts a specification does not exercise *)

ColorIdle == color_str = <<>> /\ color_out = Raised("idle")
FontIdle ==
    /\ font_in = "idle" /\ min_size = 0 /\ max_size = 0 /\ best_size = 0
    /\ font_pc = "idle" /\ font_out = "idle"
CenterIdle == canvas = "idle" /\ draw_at = "idle" /\ ink = "idle"
MainIdle ==
    /\ args = "idle" /\ pc = "idle"
    /\ h_ratio = 0 /\ v_ratio = 0 /\ bg_color = <<>> /\ fg_color = <<>>
    /\ landscape = <<>> /\ portrait = <<>>
    /\ dir_created = FALSE /\ rng = "idle" /\ i = 0 /\ image = "idle"
    /\ written = 0 /\ files = <<>> /\ partial = {} /\ stdout = <<>>
    /\ exit_status = "idle"

-----------------------------------------------------------------------------
(* SpecColor: parse_color applied to every input *)

InitColor ==
    /\ color_str \in ColorInputs
    /\ color_out = Raised("pending")
    /\ FontIdle /\ CenterIdle /\ MainIdle

ParseColor ==
    /\ color_out = Raised("pending")
    /\ color_out' = parse_color(color_str)
    /\ UNCHANGED <<color_str, fontVars, centerVars, mainVars>>

NextColor == ParseColor

SpecColor == InitColor /\ [][NextColor]_vars

HexChars == {"0", "1", "2", "3", "4", "5", "6", "7", "8", "9",
             "a", "b", "c", "d", "e", "f", "A", "B", "C", "D", "E", "F"}

IsHex(s) == \A k \in 1..Len(s) : s[k] \in HexChars

\* the value of the two hexadecimal digits c and d, worked out by hand
Byte(c, d) == 16 * DigitValue(c, 16) + DigitValue(d, 16)

\* the triple that 3 or 6 hexadecimal digits stand for
ExpandedTriple(h) ==
    IF Len(h) = 6 THEN <<Byte(h[1], h[2]), Byte(h[3], h[4]), Byte(h[5], h[6])>>
    ELSE <<Byte(h[1], h[1]), Byte(h[2], h[2]), Byte(h[3], h[3])>>

ColorDone == color_out.raised \notin {"pending", "idle"}

\* the digits of color_str once its leading '#'s are gone
HexDigitsOf(s) == LStrip(s, {"#"})

IsHexForm(s) == Len(HexDigitsOf(s)) \in {3, 6} /\ IsHex(HexDigitsOf(s))

\* C2 as stated: every string of exactly 3 or exactly 6 hexadecimal digits, with
\* a leading '#' or without it, parses to the triple of its two-digit values, the
\* 3-digit form to the triple of its digits duplicated.
C2_HexWithOrWithoutHash ==
    (ColorDone /\ IsHexForm(color_str) /\ Len(color_str) - Len(HexDigitsOf(color_str)) <= 1)
        => color_out = Returned(ExpandedTriple(HexDigitsOf(color_str)))

\* C2 amended: with a leading '#', 3 or 6 hexadecimal digits parse to the triple
\* of their two-digit values, the 3-digit form to the triple of its digits
\* duplicated; the same digits without a leading '#' raise ValueError.
C2_HexNeedsHash ==
    (ColorDone /\ IsHexForm(color_str))
        => IF StartsWith(color_str, "#")
           THEN color_out = Returned(ExpandedTriple(HexDigitsOf(color_str)))
           ELSE color_out = Raised("ValueError")

C2_Witness ==
    /\ color_str = <<"#", "a", "F", "0">>
    /\ color_out = Returned(<<170, 255, 0>>)

\* the three forms C7 accepts
IsInteger(s) == PyInt(s, 10).ok
AcceptedForm(s) ==
    \/ IsHexForm(s) /\ Len(s) - Len(HexDigitsOf(s)) <= 1
    \/ Len(Split(s, ",")) = 3 /\ \A k \in 1..3 : IsInteger(Split(s, ",")[k])
    \/ \E e \in named_colors : e[1] = Replace(Lower(s), " ", "_")

\* C7: parse_color raises ValueError on every string that has none of the three
\* accepted forms and never returns a triple for one.
C7_RejectsOtherStrings ==
    (ColorDone /\ ~AcceptedForm(color_str)) => color_out = Raised("ValueError")

-----------------------------------------------------------------------------
(* get_font_size_to_fill *)

\* the largest max_width and max_height
MaxBox == 6

Min(a, b) == IF a <= b THEN a ELSE b
Max(a, b) == IF a >= b THEN a ELSE b

\* the sizes the text is measured at
Sizes == 10..Max(2 * MaxBox, 11)

\* textbbox results (left, top, right, bottom): the empty text, a box of width 5
\* and height 4 whose origin is off (0, 0), and one too tall and one too wide
\* for any max_width and max_height of the model
TextBoxes ==
    {<<0, 0, 0, 0>>, <<1, 2, 6, 6>>, <<0, 1, 4, MaxBox + 2>>, <<0, 0, MaxBox + 1, 3>>}

\* where the fonts come from: the font_path argument (None, one that loads, one
\* that does not) and which of the two system fonts the host has
FontEnvs ==
    {[font_path |-> "None", host |-> "helvetica"],
     [font_path |-> "None", host |-> "dejavu"],
     [font_path |-> "None", host |-> "none"],
     [font_path |-> "good.ttf", host |-> "none"],
     [font_path |-> "missing.ttf", host |-> "dejavu"]}

DefaultFont == [kind |-> "default", path |-> "load_default", size |-> 0]
TrueType(path, size) == [kind |-> "truetype", path |-> path, size |-> size]
NoFont == [kind |-> "pending", path |-> "", size |-> 0]

\* the try/except ladder that loads the font at one size: font_path if it is
\* given (an OSError there goes straight to the default font), else Helvetica,
\* else DejaVu, else the default font
LoadFont(env, size) ==
    IF env.font_path # "None"
    THEN IF env.font_path = "good.ttf" THEN TrueType(env.font_path, size) ELSE DefaultFont
    ELSE IF env.host = "helvetica" THEN TrueType("Helvetica.ttc", size)
    ELSE IF env.host = "dejavu" THEN TrueType("DejaVuSans-Bold.ttf", size)
    ELSE DefaultFont

\* UpperBound with a fault: the factor 2 is lost
UpperBoundNoDouble(max_width, max_height) == Min(max_width, max_height)

\* max_size as get_font_size_to_fill first sets it
UpperBound(max_width, max_height) == Min(max_width, max_height) * 2

text_width(bbox) == bbox[3] - bbox[1]
text_height(bbox) == bbox[4] - bbox[2]

\* the test "text_width <= max_width and text_height <= max_height"
FitsBox(bbox, max_width, max_height) ==
    text_width(bbox) <= max_width /\ text_height(bbox) <= max_height

InitFont ==
    /\ font_in \in [textbbox : [Sizes -> TextBoxes],
                    max_width : 4..MaxBox, max_height : 4..MaxBox,
                    env : FontEnvs]
    /\ min_size = 10
    /\ max_size = UpperBound(font_in.max_width, font_in.max_height)
    /\ best_size = 10
    /\ font_pc = "loop"
    /\ font_out = NoFont
    /\ ColorIdle /\ CenterIdle /\ MainIdle

\* one pass of "while min_size <= max_size"
SearchStep ==
    /\ font_pc = "loop"
    /\ min_size <= max_size
    /\ LET mid_size == (min_size + max_size) \div 2
           font == LoadFont(font_in.env, mid_size)
       IN  IF font.kind = "default"
           THEN /\ font_out' = font
                /\ font_pc' = "returned"
                /\ UNCHANGED <<min_size, max_size, best_size>>
           ELSE IF FitsBox(font_in.textbbox[mid_size], font_in.max_width, font_in.max_height)
           THEN /\ best_size' = mid_size
                /\ min_size' = mid_size + 1
                /\ UNCHANGED <<max_size, font_pc, font_out>>
           ELSE /\ max_size' = mid_size - 1
                /\ UNCHANGED <<min_size, best_size, font_pc, font_out>>
    /\ UNCHANGED <<font_in, colorVars, centerVars, mainVars>>

\* the loop is over: the font is loaded once more, at best_size
ReturnBest ==
    /\ font_pc = "loop"
    /\ min_size > max_size
    /\ font_out' = LoadFont(font_in.env, best_size)
    /\ font_pc' = "returned"
    /\ UNCHANGED <<font_in, min_size, max_size, best_size, colorVars, centerVars, mainVars>>

NextFont == SearchStep \/ ReturnBest

SpecFont == InitFont /\ [][NextFont]_vars

\* the text fits at a size: its measured box is no wider than max_width and no
\* taller than max_height
FitsAt(s) ==
    /\ font_in.textbbox[s][3] - font_in.textbbox[s][1] <= font_in.max_width
    /\ font_in.textbbox[s][4] - font_in.textbbox[s][2] <= font_in.max_height

ScalableReturned == font_pc = "returned" /\ font_out.kind = "truetype"

\* C1: a scalable font that is returned has a size of at least 10, and the text
\* measured at that size is no wider than max_width and no taller than
\* max_height, also when size 10 does not fit and when the loop never runs.
C1_NeverTooSmallNorTooBig ==
    ScalableReturned => font_out.size >= 10 /\ FitsAt(font_out.size)

\* fitting at a size implies fitting at every smaller size
MonotoneFit == \A s \in Sizes, t \in Sizes : (s <= t /\ FitsAt(t)) => FitsAt(s)

Upper == 2 * Min(font_in.max_width, font_in.max_height)

\* C8 as stated: with a scalable font, a monotone fit and size 10 fitting, the
\* font returned is at the largest size of 10..2*min(max_width, max_height) that
\* fits: it fits, and it is the upper bound or the next size does not fit.
C8_LargestFittingSize ==
    (ScalableReturned /\ MonotoneFit /\ FitsAt(10))
        => /\ font_out.size \in 10..Upper
           /\ FitsAt(font_out.size)
           /\ font_out.size = Upper \/ ~FitsAt(font_out.size + 1)

\* C8 amended: the same when the range is not empty, that is when
\* 2*min(max_width, max_height) >= 10; when it is empty the loop never runs and
\* the font returned is at size 10.
C8_LargestFittingSizeInRange ==
    (ScalableReturned /\ MonotoneFit /\ FitsAt(10))
        => IF Upper >= 10
           THEN /\ font_out.size \in 10..Upper
                /\ FitsAt(font_out.size)
                /\ font_out.size = Upper \/ ~FitsAt(font_out.size + 1)
                /\ \A s \in 10..Upper : FitsAt(s) => s <= font_out.size
           ELSE font_out.size = 10

\* a search over 10..12 that ends at 11: 11 fits and 12 does not
C8_Witness ==
    /\ ScalableReturned /\ MonotoneFit /\ FitsAt(10)
    /\ Upper = 12 /\ font_out.size = 11 /\ ~FitsAt(12)

-----------------------------------------------------------------------------
(* generate_image: where the text is drawn *)

\* the largest canvas width and height
MaxCanvas == 4

\* the origin offsets a measured box may have
Offsets == {-1, 0, 2}

\* every (left, top, right, bottom) with an offset of Offsets and a width and a
\* height of 0..MaxCanvas + 1, so also boxes larger than the canvas
BBoxes ==
    {<<l, t, l + w, t + h>> : l \in Offsets, t \in Offsets,
                              w \in 0..(MaxCanvas + 1), h \in 0..(MaxCanvas + 1)}

NotMeasured == [set |-> FALSE, x |-> 0, y |-> 0]
NotDrawn == [drawn |-> FALSE, box |-> <<0, 0, 0, 0>>]

\* CenterOffset with a fault: the origin offset of the box is not subtracted
CenterNoOrigin(extent, low, high) == (extent - (high - low)) \div 2

\* "(width - text_width) // 2 - bbox[0]", and the same for y: extent is the
\* canvas width or height, low and high the two edges of the measured box
CenterOffset(extent, low, high) == (extent - (high - low)) \div 2 - low

InitCenter ==
    /\ canvas \in [width : 1..MaxCanvas, height : 1..MaxCanvas, bbox : BBoxes]
    /\ draw_at = NotMeasured
    /\ ink = NotDrawn
    /\ ColorIdle /\ FontIdle /\ MainIdle

\* the text is measured and the draw position computed
CenterText ==
    /\ ~draw_at.set
    /\ draw_at' = [set |-> TRUE,
                   x |-> CenterOffset(canvas.width, canvas.bbox[1], canvas.bbox[3]),
                   y |-> CenterOffset(canvas.height, canvas.bbox[2], canvas.bbox[4])]
    /\ UNCHANGED <<canvas, ink, colorVars, fontVars, mainVars>>

\* draw.text((x, y), ...): the glyph box lands at the measured box moved by (x, y)
DrawText ==
    /\ draw_at.set /\ ~ink.drawn
    /\ ink' = [drawn |-> TRUE,
               box |-> <<draw_at.x + canvas.bbox[1], draw_at.y + canvas.bbox[2],
                         draw_at.x + canvas.bbox[3], draw_at.y + canvas.bbox[4]>>]
    /\ UNCHANGED <<canvas, draw_at, colorVars, fontVars, mainVars>>

NextCenter == CenterText \/ DrawText

SpecCenter == InitCenter /\ [][NextCenter]_vars

Abs(n) == IF n < 0 THEN 0 - n ELSE n

\* C10: the glyph box is drawn centred: its left edge is at
\* floor((width - text_width) / 2), its left and right margins differ by at most
\* one pixel, and so do its top and bottom margins, whatever the origin offset
\* of the measured box and also when the box is larger than the canvas.
C10_InkCentred ==
    ink.drawn =>
        LET tw == canvas.bbox[3] - canvas.bbox[1]
            th == canvas.bbox[4] - canvas.bbox[2]
            left == ink.box[1]
            top == ink.box[2]
            right == canvas.width - ink.box[3]
            bottom == canvas.height - ink.box[4]
        IN  /\ 2 * left <= canvas.width - tw /\ canvas.width - tw < 2 * left + 2
            /\ 2 * top <= canvas.height - th /\ canvas.height - th < 2 * top + 2
            /\ ink.box[3] - ink.box[1] = tw /\ ink.box[4] - ink.box[2] = th
            /\ Abs(left - right) <= 1
            /\ Abs(top - bottom) <= 1

\* a box with an origin off (0, 0) that is wider than the canvas has been drawn
C10_Witness ==
    /\ ink.drawn
    /\ canvas.bbox[1] # 0 /\ canvas.bbox[2] # 0
    /\ canvas.bbox[3] - canvas.bbox[1] > canvas.width
    /\ ink.box[1] < 0

-----------------------------------------------------------------------------
(* Python floats: IEEE 754 binary64, round to nearest, ties to even.           *)
(*                                                                         *)
(* A positive float is [m, k], the number m * 2^(-k), where m is its       *)
(* significand of at most 54 bits. A significand does not fit a 32-bit     *)
(* integer, so it is kept in two limbs <<hi, lo>> of 27 bits each, the     *)
(* number hi * 2^27 + lo. The divisions of main stay far from the          *)
(* subnormal and the overflow range.                                       *)
(***************************************************************************)

LimbBase == 134217728       \* 2^27
HiOfTwoTo52 == 33554432     \* 2^25: <<2^25, 0>> is 2^52

Limbs(n) == <<0, n>>
Doubled(a) == <<2 * a[1] + (2 * a[2]) \div LimbBase, (2 * a[2]) % LimbBase>>
PlusOne(a) == IF a[2] + 1 = LimbBase THEN <<a[1] + 1, 0>> ELSE <<a[1], a[2] + 1>>
AtLeast(a, b) == a[1] > b[1] \/ (a[1] = b[1] /\ a[2] >= b[2])
Minus(a, b) ==
    IF a[2] >= b[2] THEN <<a[1] - b[1], a[2] - b[2]>>
    ELSE <<a[1] - b[1] - 1, a[2] + LimbBase - b[2]>>

\* A state of binary long division by d: q = floor(n * 2^k / d) and
\* r = n * 2^k - q * d for the dividend n; it is done when q has its 53 bits.
DivState(q, r, k) == [q |-> q, r |-> r, k |-> k, done |-> q[1] >= HiOfTwoTo52]

\* one more quotient bit; a state that is done is left as it is
DivStep(s, d) ==
    IF s.done THEN s
    ELSE IF AtLeast(Doubled(s.r), d)
    THEN DivState(PlusOne(Doubled(s.q)), Minus(Doubled(s.r), d), s.k + 1)
    ELSE DivState(Doubled(s.q), Doubled(s.r), s.k + 1)

RECURSIVE DivSteps(_, _, _)
RECURSIVE SecondHalf(_, _, _)
\* 2^j steps, as two halves of 2^(j-1) steps. The first half is an argument of
\* SecondHalf, whose test works it out before the second half is begun, so the
\* evaluation nests j deep and not 2^j deep.
DivSteps(s, d, j) ==
    IF j = 0 THEN DivStep(s, d) ELSE SecondHalf(DivSteps(s, d, j - 1), d, j - 1)

SecondHalf(half, d, j) == IF half.done THEN half ELSE DivSteps(half, d, j)

\* a dividend of 1 or more and a divisor below 2^54 need at most 52 + 54
\* steps, so 2^7 steps do
LongDivide(s, d) == DivSteps(s, d, 7)

\* the 53-bit quotient rounded to nearest, ties to even, on the remainder
RoundQuotient(res, d) ==
    LET twice == Doubled(res.r)
        up == AtLeast(twice, d) /\ (twice # d \/ res.q[2] % 2 = 1)
    IN  [m |-> IF up THEN PlusOne(res.q) ELSE res.q, k |-> res.k]

\* h / v for two positive ints
IntDivInt(h, v) ==
    RoundQuotient(LongDivide(DivState(Limbs(h \div v), Limbs(h % v), 0), Limbs(v)),
                  Limbs(v))

\* n / a for a positive int n and a positive float a: n / (m * 2^(-k)) is
\* (n / m) * 2^k, and n is smaller than any 53-bit m
IntDivFloat(n, a) ==
    LET res == RoundQuotient(LongDivide(DivState(Limbs(0), Limbs(n), 0), a.m), a.m)
    IN  [m |-> res.m, k |-> res.k - a.k]

\* int(x) for a positive float below 2^26: the bits left of the binary point
FloatToInt(x) ==
    IF x.k - 27 >= 27 THEN 0 ELSE x.m[1] \div 2^(x.k - 27)

\* "aspect >= 1" for a positive float: m * 2^(-k) >= 1
AtLeastOne(x) == x.k <= 52 \/ (x.k = 53 /\ x.m[1] >= 2 * HiOfTwoTo52)

\* "aspect = h_ratio / v_ratio", then "if aspect >= 1", whose two branches both
\* compute "int(args.long_edge / aspect)"
LandscapeHeight(long_edge, h, v) ==
    LET aspect == IntDivInt(h, v)
    IN  IF AtLeastOne(aspect)
        THEN FloatToInt(IntDivFloat(long_edge, aspect))
        ELSE FloatToInt(IntDivFloat(long_edge, aspect))

-----------------------------------------------------------------------------
(* parse_aspect_ratio and the file names *)

\* "H:V" -> (int(H), int(V)); a ValueError unless there are exactly two parts
\* and int() takes both
parse_aspect_ratio(ratio_str) ==
    IF Len(Split(ratio_str, ":")) # 2 THEN Raised("ValueError")
    ELSE IntTuple(Split(ratio_str, ":"), 10)

RECURSIVE Decimal(_)
\* str(n) for n >= 0
Decimal(n) ==
    IF n < 10 THEN <<DecChars[n + 1]>> ELSE Decimal(n \div 10) \o <<DecChars[(n % 10) + 1]>>

Zeros(n) == [k \in 1..n |-> "0"]

\* format(n, "0<width>d") for n >= 0: zeros in front up to the width, and every
\* digit of a longer number
ZeroPadded(n, width) == Zeros(Max(0, width - Len(Decimal(n)))) \o Decimal(n)

\* FormatName with a fault: the pad width is 3
FormatNameShort(n) == ZeroPadded(n, 3) \o <<".", "j", "p", "g">>

\* f"{i:04d}.jpg"
FormatName(n) == ZeroPadded(n, 4) \o <<".", "j", "p", "g">>

-----------------------------------------------------------------------------
(* main *)

\* the largest --count
MaxCount == 3
\* random.random() is one of 0/RandomSteps .. (RandomSteps-1)/RandomSteps, and
\* --portrait-fraction is a number of the same steps
RandomSteps == 4

Counts == (-1)..MaxCount
PortraitFractions == {-1, 0, 2, RandomSteps, RandomSteps + 1}
RandomDraws == 0..(RandomSteps - 1)
Seeds == {"None", "42"}
LongEdges == {4, 3000}

AspectSamples ==
    {<<"3", ":", "2">>, <<"2", ":", "3">>, <<"1", ":", "1">>, <<"3", ":", "0">>,
     <<"a", "b", "c", ":", "2">>, <<"3", "-", "2">>, <<"3", ":", "2", ":", "1">>}
BackgroundSamples ==
    {<<"d", "a", "r", "k", "g", "r", "a", "y">>, <<"#", "1", "2">>}
ForegroundSamples ==
    {<<"#", "f", "f", "f">>, <<"n", "o", "t", "a", "c", "o", "l", "o", "r">>}

Running == [ended |-> FALSE, code |-> 0, error |-> ""]
Exit(code, error) == [ended |-> TRUE, code |-> code, error |-> error]

NoImage ==
    [is_portrait |-> FALSE, width |-> 0, height |-> 0, orientation |-> "",
     filename |-> <<>>]

\* the state of main once parse_args has returned
MainStart(a) ==
    /\ args = a
    /\ pc = "validate"
    /\ h_ratio = 0 /\ v_ratio = 0 /\ bg_color = <<>> /\ fg_color = <<>>
    /\ landscape = <<0, 0>> /\ portrait = <<0, 0>>
    /\ dir_created = FALSE /\ rng = "unseeded" /\ i = 0 /\ image = NoImage
    /\ written = 0 /\ files = <<>> /\ partial = {} /\ stdout = <<>>
    /\ exit_status = Running

InitMain ==
    /\ \E a \in [output : {"samples/"}, count : Counts,
                 portrait_fraction : PortraitFractions,
                 aspect_ratio : AspectSamples, long_edge : LongEdges,
                 background : BackgroundSamples, foreground : ForegroundSamples,
                 seed : Seeds] : MainStart(a)
    /\ ColorIdle /\ FontIdle /\ CenterIdle

\* parser.error(message): the message goes to stderr and the process exits with 2
ParserError(message) ==
    /\ pc' = "exit"
    /\ exit_status' = Exit(2, message)

\* an exception nothing catches: a traceback and exit status 1
Uncaught(exception) ==
    /\ pc' = "crash"
    /\ exit_status' = Exit(1, exception)

\* "if not 0.0 <= args.portrait_fraction <= 1.0"
ValidateFraction ==
    /\ pc = "validate"
    /\ IF 0 <= args.portrait_fraction /\ args.portrait_fraction <= RandomSteps
       THEN pc' = "aspect" /\ UNCHANGED exit_status
       ELSE ParserError("Portrait fraction must be between 0.0 and 1.0")
    /\ UNCHANGED <<args, h_ratio, v_ratio, bg_color, fg_color, landscape, portrait,
                   dir_created, rng, i, image, written, files, partial, stdout>>
    /\ UNCHANGED <<colorVars, fontVars, centerVars>>

ParseAspect ==
    /\ pc = "aspect"
    /\ LET r == parse_aspect_ratio(args.aspect_ratio)
       IN  IF r.raised = "none"
           THEN /\ h_ratio' = r.value[1] /\ v_ratio' = r.value[2]
                /\ pc' = "background" /\ UNCHANGED exit_status
           ELSE /\ ParserError("Invalid aspect ratio format")
                /\ UNCHANGED <<h_ratio, v_ratio>>
    /\ UNCHANGED <<args, bg_color, fg_color, landscape, portrait,
                   dir_created, rng, i, image, written, files, partial, stdout>>
    /\ UNCHANGED <<colorVars, fontVars, centerVars>>

ParseBackground ==
    /\ pc = "background"
    /\ LET r == parse_color(args.background)
       IN  IF r.raised = "none"
           THEN bg_color' = r.value /\ pc' = "foreground" /\ UNCHANGED exit_status
           ELSE ParserError("Invalid background color") /\ UNCHANGED bg_color
    /\ UNCHANGED <<args, h_ratio, v_ratio, fg_color, landscape, portrait,
                   dir_created, rng, i, image, written, files, partial, stdout>>
    /\ UNCHANGED <<colorVars, fontVars, centerVars>>

\* ParseForeground with a fault: the error is reported and main goes on
ParseForegroundGoesOn ==
    /\ pc = "foreground"
    /\ LET r == parse_color(args.foreground)
       IN  fg_color' = r.value /\ pc' = "dims" /\ UNCHANGED exit_status
    /\ UNCHANGED <<args, h_ratio, v_ratio, bg_color, landscape, portrait,
                   dir_created, rng, i, image, written, files, partial, stdout>>
    /\ UNCHANGED <<colorVars, fontVars, centerVars>>

ParseForeground ==
    /\ pc = "foreground"
    /\ LET r == parse_color(args.foreground)
       IN  IF r.raised = "none"
           THEN fg_color' = r.value /\ pc' = "dims" /\ UNCHANGED exit_status
           ELSE ParserError("Invalid foreground color") /\ UNCHANGED fg_color
    /\ UNCHANGED <<args, h_ratio, v_ratio, bg_color, landscape, portrait,
                   dir_created, rng, i, image, written, files, partial, stdout>>
    /\ UNCHANGED <<colorVars, fontVars, centerVars>>

\* "Calculate dimensions": a zero in the ratio is a ZeroDivisionError, at
\* h_ratio / v_ratio or at args.long_edge / aspect
ComputeDimensions ==
    /\ pc = "dims"
    /\ IF h_ratio = 0 \/ v_ratio = 0
       THEN Uncaught("ZeroDivisionError") /\ UNCHANGED <<landscape, portrait>>
       ELSE /\ landscape' = <<args.long_edge, LandscapeHeight(args.long_edge, h_ratio, v_ratio)>>
            /\ portrait' = <<landscape'[2], landscape'[1]>>
            /\ pc' = "makedirs" /\ UNCHANGED exit_status
    /\ UNCHANGED <<args, h_ratio, v_ratio, bg_color, fg_color,
                   dir_created, rng, i, image, written, files, partial, stdout>>
    /\ UNCHANGED <<colorVars, fontVars, centerVars>>

\* os.makedirs(args.output, exist_ok=True): it returns, or raises an OSError
MakeDirs ==
    /\ pc = "makedirs"
    /\ \/ dir_created' = TRUE /\ pc' = "header" /\ UNCHANGED exit_status
       \/ Uncaught("OSError") /\ UNCHANGED dir_created
    /\ UNCHANGED <<args, h_ratio, v_ratio, bg_color, fg_color, landscape, portrait,
                   rng, i, image, written, files, partial, stdout>>
    /\ UNCHANGED <<colorVars, fontVars, centerVars>>

\* random.seed(args.seed) when a seed is given, and the configuration summary
PrintHeader ==
    /\ pc = "header"
    /\ rng' = IF args.seed # "None" THEN "seeded" ELSE "unseeded"
    /\ stdout' = Append(stdout, [kind |-> "header", index |-> 0, count |-> args.count,
                                 filename |-> <<>>, orientation |-> "",
                                 size |-> <<0, 0>>])
    /\ pc' = "loop"
    /\ UNCHANGED <<args, h_ratio, v_ratio, bg_color, fg_color, landscape, portrait,
                   dir_created, i, image, written, files, partial, exit_status>>
    /\ UNCHANGED <<colorVars, fontVars, centerVars>>

\* IsPortrait with a fault: "<=" for "<"
IsPortraitOrEqual(draw, fraction) == draw <= fraction

\* "random.random() < args.portrait_fraction", both in steps of 1/RandomSteps
IsPortrait(draw, fraction) == draw < fraction

\* the locals of one iteration: the orientation drawn, its dimensions, the name
Iteration(index, draw) ==
    LET is_portrait == IsPortrait(draw, args.portrait_fraction)
    IN  [is_portrait |-> is_portrait,
         width |-> IF is_portrait THEN portrait[1] ELSE landscape[1],
         height |-> IF is_portrait THEN portrait[2] ELSE landscape[2],
         orientation |-> IF is_portrait THEN "portrait" ELSE "landscape",
         filename |-> FormatName(index)]

\* "for i in range(1, args.count + 1)" and the iteration up to the call of
\* generate_image; the loop is left when the range is used up
LoopHead ==
    /\ pc = "loop"
    /\ IF i + 1 <= args.count
       THEN /\ i' = i + 1
            /\ \E draw \in RandomDraws : image' = Iteration(i + 1, draw)
            /\ pc' = "generate"
       ELSE /\ pc' = "finish"
            /\ UNCHANGED <<i, image>>
    /\ UNCHANGED <<args, h_ratio, v_ratio, bg_color, fg_color, landscape, portrait,
                   dir_created, rng, written, files, partial, stdout, exit_status>>
    /\ UNCHANGED <<colorVars, fontVars, centerVars>>

\* GenerateImage with a fault: a failed image is skipped and the loop goes on
GenerateImageSkipsFailure ==
    /\ pc = "generate"
    /\ \/ /\ files' = (image.filename :> <<image.width, image.height>>) @@ files
          /\ written' = written + 1
       \/ UNCHANGED <<files, written>>
    /\ pc' = "progress"
    /\ UNCHANGED <<args, h_ratio, v_ratio, bg_color, fg_color, landscape, portrait,
                   dir_created, rng, i, image, partial, stdout, exit_status>>
    /\ UNCHANGED <<colorVars, fontVars, centerVars>>

\* generate_image(i, width, height, ...): the image is written under its name, or
\* an exception ends the run, the file then missing or left incomplete
GenerateImage ==
    /\ pc = "generate"
    /\ \/ /\ files' = (image.filename :> <<image.width, image.height>>) @@ files
          /\ written' = written + 1
          /\ pc' = "progress"
          /\ UNCHANGED <<partial, exit_status>>
       \/ /\ Uncaught("OSError")
          /\ partial' \in {partial, partial \cup {image.filename}}
          /\ UNCHANGED <<files, written>>
    /\ UNCHANGED <<args, h_ratio, v_ratio, bg_color, fg_color, landscape, portrait,
                   dir_created, rng, i, image, stdout>>
    /\ UNCHANGED <<colorVars, fontVars, centerVars>>

\* print(f"  [{i}/{args.count}] {filename} ({orientation}, {width}x{height})")
PrintProgress ==
    /\ pc = "progress"
    /\ stdout' = Append(stdout, [kind |-> "progress", index |-> i, count |-> args.count,
                                 filename |-> image.filename,
                                 orientation |-> image.orientation,
                                 size |-> <<image.width, image.height>>])
    /\ pc' = "loop"
    /\ UNCHANGED <<args, h_ratio, v_ratio, bg_color, fg_color, landscape, portrait,
                   dir_created, rng, i, image, written, files, partial, exit_status>>
    /\ UNCHANGED <<colorVars, fontVars, centerVars>>

\* the completion summary, and main returns
Finish ==
    /\ pc = "finish"
    /\ stdout' = Append(stdout, [kind |-> "done", index |-> 0, count |-> args.count,
                                 filename |-> <<>>, orientation |-> "",
                                 size |-> <<0, 0>>])
    /\ pc' = "done"
    /\ exit_status' = Exit(0, "")
    /\ UNCHANGED <<args, h_ratio, v_ratio, bg_color, fg_color, landscape, portrait,
                   dir_created, rng, i, image, written, files, partial>>
    /\ UNCHANGED <<colorVars, fontVars, centerVars>>

NextMain ==
    \/ ValidateFraction \/ ParseAspect \/ ParseBackground \/ ParseForeground
    \/ ComputeDimensions \/ MakeDirs \/ PrintHeader
    \/ LoopHead \/ GenerateImage \/ PrintProgress \/ Finish

SpecMain == InitMain /\ [][NextMain]_vars

-----------------------------------------------------------------------------
(* SpecDims: the dimension arithmetic of main over a grid of ratios and edges *)

\* the largest H and V of a ratio H:V
MaxRatio == 7
\* the long edges are 1..MaxLongEdge and 3000
MaxLongEdge == 35

DefaultArgs ==
    [output |-> "samples/", count |-> 40, portrait_fraction |-> 2,
     aspect_ratio |-> <<"3", ":", "2">>, long_edge |-> 3000,
     background |-> <<"d", "a", "r", "k", "g", "r", "a", "y">>,
     foreground |-> <<"l", "i", "g", "h", "t", "g", "r", "a", "y">>,
     seed |-> "None"]

\* main with the ratio H:V and the colours parsed, about to compute the dimensions
InitDims ==
    /\ \E h \in 1..MaxRatio, v \in 1..MaxRatio, edge \in (1..MaxLongEdge) \cup {3000} :
          /\ args = [DefaultArgs EXCEPT !.aspect_ratio = Decimal(h) \o <<":">> \o Decimal(v),
                                        !.long_edge = edge]
          /\ h_ratio = h /\ v_ratio = v
    /\ pc = "dims"
    /\ bg_color = <<64, 64, 64>> /\ fg_color = <<192, 192, 192>>
    /\ landscape = <<0, 0>> /\ portrait = <<0, 0>>
    /\ dir_created = FALSE /\ rng = "unseeded" /\ i = 0 /\ image = NoImage
    /\ written = 0 /\ files = <<>> /\ partial = {} /\ stdout = <<>>
    /\ exit_status = Running
    /\ ColorIdle /\ FontIdle /\ CenterIdle

NextDims == ComputeDimensions

SpecDims == InitDims /\ [][NextDims]_vars

\* C4: for every ratio H:V of positive integers and every long edge L > 0 the
\* landscape dimensions are (L, floor(L * V / H)) with the width at least the
\* height, whether H >= V or H < V, and the portrait dimensions are that pair
\* swapped.
C4_LandscapeDimensions ==
    pc = "makedirs" =>
        /\ landscape = <<args.long_edge, (args.long_edge * v_ratio) \div h_ratio>>
        /\ landscape[1] >= landscape[2]
        /\ portrait = <<landscape[2], landscape[1]>>

-----------------------------------------------------------------------------
(* SpecNaming: the loop of main over counts past 9999. The directory listing   *)
(* and the output are kept out of the state here: written counts the files,  *)
(* and image holds the name of the last one.                               *)
(***************************************************************************)

\* the largest --count of the runs that are followed name by name
MaxNameCount == 10001

NameCounts == {0, 1, 2, 9999, 10000, MaxNameCount}

\* main with the default arguments but --count, about to enter the loop
InitNaming ==
    /\ \E n \in NameCounts : args = [DefaultArgs EXCEPT !.count = n]
    /\ pc = "loop"
    /\ h_ratio = 3 /\ v_ratio = 2
    /\ bg_color = <<64, 64, 64>> /\ fg_color = <<192, 192, 192>>
    /\ landscape = <<3000, 2000>> /\ portrait = <<2000, 3000>>
    /\ dir_created = TRUE /\ rng = "unseeded" /\ i = 0 /\ image = NoImage
    /\ written = 0 /\ files = <<>> /\ partial = {} /\ stdout = <<>>
    /\ exit_status = Running
    /\ ColorIdle /\ FontIdle /\ CenterIdle

\* one whole iteration that does not fail: the name is formatted and the image
\* written under it
NameIteration ==
    /\ pc = "loop"
    /\ i + 1 <= args.count
    /\ i' = i + 1
    /\ \E draw \in RandomDraws : image' = Iteration(i + 1, draw)
    /\ written' = written + 1
    /\ UNCHANGED <<args, pc, h_ratio, v_ratio, bg_color, fg_color, landscape, portrait,
                   dir_created, rng, files, partial, stdout, exit_status>>
    /\ UNCHANGED <<colorVars, fontVars, centerVars>>

\* the range is used up: main returns
NameLoopExit ==
    /\ pc = "loop"
    /\ i + 1 > args.count
    /\ pc' = "done"
    /\ exit_status' = Exit(0, "")
    /\ UNCHANGED <<args, h_ratio, v_ratio, bg_color, fg_color, landscape, portrait,
                   dir_created, rng, i, image, written, files, partial, stdout>>
    /\ UNCHANGED <<colorVars, fontVars, centerVars>>

NextNaming == NameIteration \/ NameLoopExit

SpecNaming == InitNaming /\ [][NextNaming]_vars

\* the name without its last four characters, and those
Stem(name) == SubSeq(name, 1, Len(name) - 4)
Extension(name) == SubSeq(name, Len(name) - 3, Len(name))

AllDigits(s) == \A k \in 1..Len(s) : s[k] \in Range(DecChars)

\* the number of decimal digits of n, for 1 <= n < 100000
DigitCount(n) ==
    IF n < 10 THEN 1 ELSE IF n < 100 THEN 2 ELSE IF n < 1000 THEN 3
    ELSE IF n < 10000 THEN 4 ELSE 5

\* C3 as stated: a run that completes has written count files, one per index,
\* and every name is exactly 4 decimal digits, the index, followed by ".jpg".
C3_FourDigitNames ==
    /\ pc = "done" => written = args.count
    /\ written = i
    /\ written > 0 =>
          /\ Len(image.filename) = 8
          /\ AllDigits(Stem(image.filename))
          /\ DigitsValue(Stem(image.filename), 10) = i
          /\ Extension(image.filename) = <<".", "j", "p", "g">>

\* C3 amended: a run that completes has written count files, one per index; a
\* name is the index in decimal, zero-padded to at least 4 digits (exactly 4 up
\* to index 9999, one digit more for each further order of magnitude), followed
\* by ".jpg"; the index is read back from the name, so distinct indices have
\* distinct names.
C3_PaddedNames ==
    /\ pc = "done" => written = args.count
    /\ written = i
    /\ written > 0 =>
          /\ Len(Stem(image.filename)) = Max(4, DigitCount(i))
          /\ AllDigits(Stem(image.filename))
          /\ DigitsValue(Stem(image.filename), 10) = i
          /\ Extension(image.filename) = <<".", "j", "p", "g">>

C3_Witness ==
    /\ pc = "done" /\ args.count = 10000 /\ written = 10000
    /\ image.filename = <<"1", "0", "0", "0", "0", ".", "j", "p", "g">>

-----------------------------------------------------------------------------
(* Properties of main, under SpecMain *)

\* the portrait fraction is outside [0.0, 1.0], or the aspect ratio or one of
\* the two colours does not parse
BadArguments ==
    \/ args.portrait_fraction < 0 \/ args.portrait_fraction > RandomSteps
    \/ parse_aspect_ratio(args.aspect_ratio).raised # "none"
    \/ parse_color(args.background).raised # "none"
    \/ parse_color(args.foreground).raised # "none"

\* C5: with a portrait fraction outside [0.0, 1.0], an aspect ratio that does
\* not parse or a colour that does not parse, main never gets past the
\* validation: the only way it ends is an exit with a non-zero status, and the
\* output directory is never created and no image is ever generated.
C5_FailsBeforeAnyOutput ==
    BadArguments =>
        /\ pc \in {"validate", "aspect", "background", "foreground", "exit"}
        /\ pc = "exit" => exit_status.ended /\ exit_status.code # 0
        /\ pc # "exit" => ~exit_status.ended
        /\ ~dir_created
        /\ written = 0 /\ DOMAIN files = {} /\ partial = {}
        /\ stdout = <<>>

\* the fraction, the ratio and the background are good and the foreground is
\* not: the last of the validations has ended the run
C5_Witness ==
    /\ pc = "exit" /\ exit_status = Exit(2, "Invalid foreground color")
    /\ args.portrait_fraction = 2
    /\ h_ratio = 3 /\ v_ratio = 2 /\ bg_color = <<64, 64, 64>>
    /\ ~dir_created

IsProgress(record) == record.kind = "progress"
ProgressRecords == SelectSeq(stdout, IsProgress)

\* C6: every image generated has one of the two dimension pairs; with a portrait
\* fraction of 0.0 every image and every progress record is landscape, with 1.0
\* every one is portrait, whatever the count, the seed and the random draws.
C6_OrientationFollowsFraction ==
    /\ \A name \in DOMAIN files :
          /\ files[name] \in {landscape, portrait}
          /\ args.portrait_fraction = 0 => files[name] = landscape
          /\ args.portrait_fraction = RandomSteps => files[name] = portrait
    /\ \A k \in 1..Len(ProgressRecords) :
          /\ args.portrait_fraction = 0 =>
                /\ ProgressRecords[k].orientation = "landscape"
                /\ ProgressRecords[k].size = landscape
          /\ args.portrait_fraction = RandomSteps =>
                /\ ProgressRecords[k].orientation = "portrait"
                /\ ProgressRecords[k].size = portrait

\* a finished run of two or more portrait images at fraction 1.0
C6_Witness ==
    /\ pc = "done" /\ args.portrait_fraction = RandomSteps
    /\ landscape = <<3000, 2000>> /\ portrait = <<2000, 3000>>
    /\ written >= 2
    /\ \A name \in DOMAIN files : files[name] = <<2000, 3000>>

\* the name of image j, for j <= 9, spelled out
NameOf(j) == <<"0", "0", "0", DecChars[j + 1], ".", "j", "p", "g">>

Printed(kind) == \E k \in 1..Len(stdout) : stdout[k].kind = kind

\* C9: the images are written in index order, image i completely before image
\* i + 1 is started and before its progress record is printed; when writing
\* image k fails the run stops there, with images 1..k-1 on disk, nothing of a
\* later index, no progress record for k or later and no completion summary;
\* a run without a failure ends with count images (for a count >= 0) and the
\* completion summary.
C9_InOrderAndAbortOnFailure ==
    /\ DOMAIN files = {NameOf(j) : j \in 1..written}
    /\ \A k \in 1..Len(ProgressRecords) :
          ProgressRecords[k].index = k /\ ProgressRecords[k].filename = NameOf(k)
    /\ pc = "generate" => written = i - 1 /\ Len(ProgressRecords) = i - 1
    /\ pc = "progress" => written = i /\ Len(ProgressRecords) = i - 1
    /\ pc \in {"loop", "finish"} => written = i /\ Len(ProgressRecords) = i
    /\ (pc = "crash" /\ dir_created) =>
          /\ written = i - 1 /\ Len(ProgressRecords) = i - 1
          /\ partial \subseteq {NameOf(i)}
          /\ exit_status.ended /\ exit_status.code # 0
          /\ ~ENABLED NextMain
    /\ pc # "crash" => partial = {}
    /\ Printed("done") <=> pc = "done"
    /\ pc = "done" =>
          /\ args.count >= 0 => written = args.count
          /\ Len(ProgressRecords) = written
          /\ stdout[Len(stdout)].kind = "done"
          /\ exit_status = Exit(0, "")

\* writing image 2 of 3 has failed: image 1 is there, image 2 is incomplete
C9_Witness ==
    /\ pc = "crash" /\ args.count = 3 /\ i = 2
    /\ DOMAIN files = {NameOf(1)} /\ partial = {NameOf(2)}
    /\ Len(ProgressRecords) = 1

=============================================================================
